---- MODULE Spec2Model ----
(***************************************************************************)
(* Model of core/src/cursor.rs: the lifetime-erased tree cursor (RCursor), *)
(* the depth-first iterator (DepthFirstIterator) and the bulk traversal    *)
(* driver (_traverse_mapc) of emacs-tree-sitter.                           *)
(*                                                                         *)
(* The syntax tree is immutable.  It is the sequence `tree` of parent      *)
(* links: node 1 is the root (tree[1] = 0) and tree[i] < i is the parent   *)
(* of node i; the children of a node are ordered by node number.  Node     *)
(* numbers are NOT the pre-order numbers (<<0, 1, 1, 2>> is visited        *)
(* 1, 2, 4, 3).                                                            *)
(***************************************************************************)
EXTENDS Integers, Sequences, FiniteSets, Bags, TLC

VARIABLES
    tree,      \* the parsed tree: Seq of parent links
    cursor,    \* the RCursor made by make_cursor (or NoCursor)
    nodeOut,   \* the RNode last returned by current_node
    iter,      \* the DepthFirstIterator made by _iter (or NoIter)
    emitted,   \* items returned by the iterator's next so far, in order
    closed,    \* number of items emitted when close() was first called, -1 if never
    mapc,      \* the activation of _traverse_mapc (locals, pc, result)
    calls,     \* handler invocations of _traverse_mapc so far: node, depth, argument
    answers,   \* what the handler answered to each invocation
    climb,     \* where the cursor's current run of goto_parent began, and its length
    call,      \* the last operation performed and what it returned
    owner,     \* the cursor's tree handle and the tree its walker points into
    outbuf,    \* the caller's output vector for projections
    outprops,  \* the props vector last projected into outbuf
    iter2,     \* a second DepthFirstIterator, made independently
    emitted2,  \* items returned by the second iterator's next so far
    objs,      \* the live cursors, nodes and traversals sharing the trees
    rc,        \* the reference count of each tree, 0 once it is destroyed
    running,   \* the operation in progress: its name and the steps left
    shared,    \* shared borrows of the tree's RefCell outstanding
    excl,      \* exclusive borrows of the tree's RefCell outstanding
    fault,     \* a borrow was refused (BorrowConflict)
    bare       \* the reads of tree data made while no borrow was held

vars == <<tree, cursor, nodeOut, iter, emitted, closed, mapc, calls, answers, climb, call,
          owner, outbuf, outprops, iter2, emitted2, objs, rc, running, shared, excl, fault, bare>>

(***************************************************************************)
(* Bounds of the model.                                                    *)
(***************************************************************************)
\* largest number of nodes of a tree
MaxNodes == 4

\* largest number of cursors, nodes and traversals alive at once
MaxObjs == 3

(***************************************************************************)
(* The tree (tree_sitter::Tree and tree_sitter::Node, read-only).          *)
(***************************************************************************)
\* all trees of 1..MaxNodes nodes
Trees ==
    UNION { { t \in [1..n -> 0..n] :
                /\ t[1] = 0
                /\ \A i \in 2..n : t[i] >= 1 /\ t[i] < i } : n \in 1..MaxNodes }

Nodes == 1..Len(tree)

Root == 1

ChildSet(n) == { i \in Nodes : tree[i] = n }

Min(S) == CHOOSE x \in S : \A y \in S : x <= y

Max(S) == CHOOSE x \in S : \A y \in S : x >= y

\* the children of n, left to right
RECURSIVE SortedSeq(_)
SortedSeq(S) ==
    IF S = {} THEN <<>> ELSE <<Min(S)>> \o SortedSeq(S \ {Min(S)})

Children(n) == SortedSeq(ChildSet(n))

\* the first child of n, 0 when n has no children
FirstChild(n) == IF ChildSet(n) = {} THEN 0 ELSE Min(ChildSet(n))

\* the parent of n in the tree, 0 for the root
Parent(n) == tree[n]

\* the next sibling of n in the tree, 0 when n is a last child or the root
NextSibling(n) ==
    LET later == { i \in Nodes : tree[i] = tree[n] /\ i > n }
    IN  IF later = {} THEN 0 ELSE Min(later)

\* the nodes of the subtree of n in pre-order (a node before its
\* descendants, children left to right), by structural recursion
RECURSIVE PreOrder(_)
RECURSIVE PreOrderAll(_)
PreOrder(n) == <<n>> \o PreOrderAll(Children(n))

PreOrderAll(cs) ==
    IF cs = <<>> THEN <<>> ELSE PreOrder(Head(cs)) \o PreOrderAll(Tail(cs))

\* n is a (reflexive) ancestor of m
RECURSIVE IsAncestor(_, _)
IsAncestor(n, m) ==
    IF m = n THEN TRUE
    ELSE IF m = 0 THEN FALSE
    ELSE IsAncestor(n, tree[m])

\* the number of parent links from m up to its ancestor n
RECURSIVE Distance(_, _)
Distance(n, m) == IF m = n THEN 0 ELSE 1 + Distance(n, tree[m])

Range(s) == { s[i] : i \in DOMAIN s }

\* position of x in the sequence s (x occurs in s)
IndexOf(s, x) == Min({ i \in DOMAIN s : s[i] = x })

\* the leaves of the tree, left to right
Leaves == SelectSeq(PreOrder(Root), LAMBDA n : ChildSet(n) = {})

\* Byte spans.  The k-th leaf (k = 0, 1, ..) covers the two bytes
\* [3k, 3k+2) and one byte of padding separates consecutive leaves; an
\* inner node spans from the start of its first leaf to the end of its last.
LeavesOf(n) == { l \in Range(Leaves) : IsAncestor(n, l) }

StartByte(n) == 3 * (Min({ IndexOf(Leaves, l) : l \in LeavesOf(n) }) - 1)

EndByte(n) == 3 * (Max({ IndexOf(Leaves, l) : l \in LeavesOf(n) }) - 1) + 2

(***************************************************************************)
(* Byte positions on the Lisp side (types::BytePos) are 1-based; the       *)
(* walker's are 0-based.                                                   *)
(***************************************************************************)
\* BytePos -> usize, the `into` of goto_first_child_for_byte's argument
BytePosInto(b) == b - 1

\* usize -> BytePos, as node.lisp_start_byte() / lisp_end_byte() report
lisp_start_byte(n) == StartByte(n) + 1

lisp_end_byte(n) == EndByte(n) + 1

(***************************************************************************)
(* tree_sitter::TreeCursor.  A walker is [root, pos]: `root` is the node   *)
(* it was created on (or last reset to), which it cannot walk out of, and  *)
(* `pos` the node it is on.  Every move returns the walker after the move  *)
(* and the value the move returns.                                         *)
(***************************************************************************)
\* Option<usize>
NoIndex == [some |-> FALSE, val |-> 0]

SomeIndex(i) == [some |-> TRUE, val |-> i]

\* Tree::walk / Node::walk: a walker on n, rooted at n
NewWalker(n) == [root |-> n, pos |-> n]

\* bug: a first-child move that lands on the last child
WalkerGotoFirstChildLast(w) ==
    IF ChildSet(w.pos) # {}
    THEN [cur |-> [w EXCEPT !.pos = Max(ChildSet(w.pos))], moved |-> TRUE]
    ELSE [cur |-> w, moved |-> FALSE]

WalkerGotoFirstChild(w) ==
    IF FirstChild(w.pos) # 0
    THEN [cur |-> [w EXCEPT !.pos = FirstChild(w.pos)], moved |-> TRUE]
    ELSE [cur |-> w, moved |-> FALSE]

\* bug: a parent move that walks out of the walker's root
WalkerGotoParentUnrooted(w) ==
    IF Parent(w.pos) # 0
    THEN [cur |-> [w EXCEPT !.pos = Parent(w.pos)], moved |-> TRUE]
    ELSE [cur |-> w, moved |-> FALSE]

WalkerGotoParent(w) ==
    IF w.pos # w.root
    THEN [cur |-> [w EXCEPT !.pos = Parent(w.pos)], moved |-> TRUE]
    ELSE [cur |-> w, moved |-> FALSE]

\* bug: a next-sibling move that walks out of the walker's root
WalkerGotoNextSiblingUnrooted(w) ==
    IF NextSibling(w.pos) # 0
    THEN [cur |-> [w EXCEPT !.pos = NextSibling(w.pos)], moved |-> TRUE]
    ELSE [cur |-> w, moved |-> FALSE]

WalkerGotoNextSibling(w) ==
    IF w.pos # w.root /\ NextSibling(w.pos) # 0
    THEN [cur |-> [w EXCEPT !.pos = NextSibling(w.pos)], moved |-> TRUE]
    ELSE [cur |-> w, moved |-> FALSE]

\* bug: a child that merely ends at `goal` is taken to extend beyond it
WalkerGotoFirstChildForByteInclusive(w, goal) ==
    LET cs   == Children(w.pos)
        hits == { i \in DOMAIN cs : EndByte(cs[i]) >= goal }
    IN  IF hits # {}
        THEN [cur |-> [w EXCEPT !.pos = cs[Min(hits)]], index |-> SomeIndex(Min(hits) - 1)]
        ELSE [cur |-> w, index |-> NoIndex]

\* the first child that extends beyond byte `goal`, with its index
WalkerGotoFirstChildForByte(w, goal) ==
    LET cs   == Children(w.pos)
        hits == { i \in DOMAIN cs : EndByte(cs[i]) > goal }
    IN  IF hits # {}
        THEN [cur |-> [w EXCEPT !.pos = cs[Min(hits)]], index |-> SomeIndex(Min(hits) - 1)]
        ELSE [cur |-> w, index |-> NoIndex]

WalkerReset(w, n) == NewWalker(n)

(***************************************************************************)
(* TreeOrNode and RCursor.                                                 *)
(***************************************************************************)
TheTree == [kind |-> "Tree", node |-> 0]

ANode(n) == [kind |-> "Node", node |-> n]

TreeOrNode == {TheTree} \cup { ANode(n) : n \in Nodes }

\* TreeOrNode::walk
Walk(ton) ==
    IF ton.kind = "Tree" THEN NewWalker(Root) ELSE NewWalker(ton.node)

NoCursor == [root |-> 0, pos |-> 0]

\* Shared<Tree>: the trees a caller holds.  Both are parses of the same
\* text and have the shape `tree`; they are distinct objects.
TreeIds == {"T1", "T2"}

\* the tree a TreeOrNode argument is, or is a node of: cursors are made on
\* the first tree, the second is where other nodes come from
TreeOf(ton) == "T1"

\* RCursor.tree and the tree RCursor.inner points into
NoOwner == [tree |-> "-", inner |-> "-"]

\* RCursor::new(tree, f): the handle kept and the tree f's walker is in.
\* make_cursor passes a tree with its own walker, or a node's tree with
\* that node's walker.
RCursorNew(handle, walked) == [tree |-> handle, inner |-> walked]

\* cursor.borrow_mut().reset(node), node being a node of tree t: the
\* walker is re-initialized on node; the handle is not touched
ResetOwner(o, t) == [o EXCEPT !.inner = t]

\* An object that shares a tree: the caller's handle of the tree itself
\* (kind "tree"), an RCursor, an RNode, or a DepthFirstIterator (kind
\* "iter").  `tree` is the Shared<Tree> it owns a share of, `inner` the
\* tree its walker or node points into.
Obj(kind, handle, walked) == [kind |-> kind, tree |-> handle, inner |-> walked]

TreeHandle(t) == Obj("tree", t, t)

\* Shared<Tree>::clone: one more share of tree t
Acquire(r, t) == [r EXCEPT ![t] = @ + 1]

\* dropping a Shared<Tree>: one share less; the tree is destroyed at 0
Release(r, t) == [r EXCEPT ![t] = @ - 1]

\* no operation is in progress
NoOp == [name |-> "idle", steps |-> <<>>]

NoNode == 0

NoCall == [op |-> "none", arg |-> 0, moved |-> FALSE, index |-> NoIndex]

Called(op, arg, moved, index) ==
    [op |-> op, arg |-> arg, moved |-> moved, index |-> index]

(***************************************************************************)
(* DepthFirstIterator.                                                     *)
(***************************************************************************)
NoIter == [cursor |-> NoCursor, state |-> "None", depth |-> 0]

\* Option<(RNode, usize)>
None == [some |-> FALSE, node |-> 0, depth |-> 0]

\* DepthFirstIterator::new
DepthFirstIteratorNew(ton) ==
    [cursor |-> Walk(ton), state |-> "Start", depth |-> 0]

\* DepthFirstIterator::item
Item(it) == [some |-> TRUE, node |-> it.cursor.pos, depth |-> it.depth]

\* bug: a close that forgets to set the state
CloseForgets(it) == it

\* DepthFirstIterator::close
Close(it) == [it EXCEPT !.state = "Done"]

RECURSIVE IterNextFn(_)

\* bug: a Start arm that yields the start node but stays in Start
StartArmStays(it) == [it |-> it, item |-> Item(it)]

\* the Start arm of next
StartArm(it) ==
    LET it1 == [it EXCEPT !.state = "Down"]
    IN  [it |-> it1, item |-> Item(it1)]

\* bug: a descent that does not count the level
DownArmNoDepth(it) ==
    LET m == WalkerGotoFirstChild(it.cursor)
    IN  IF m.moved
        THEN LET it1 == [it EXCEPT !.cursor = m.cur]
             IN  [it |-> it1, item |-> Item(it1)]
        ELSE IterNextFn([it EXCEPT !.state = "Right"])

\* the Down arm of next
DownArm(it) ==
    LET m == WalkerGotoFirstChild(it.cursor)
    IN  IF m.moved
        THEN LET it1 == [it EXCEPT !.cursor = m.cur, !.depth = it.depth + 1]
             IN  [it |-> it1, item |-> Item(it1)]
        ELSE IterNextFn([it EXCEPT !.state = "Right"])

\* bug: a Right arm that stays in Right after moving to a sibling
RightArmStaysRight(it) ==
    LET s == WalkerGotoNextSibling(it.cursor)
        p == WalkerGotoParent(s.cur)
    IN  IF s.moved
        THEN LET it1 == [it EXCEPT !.cursor = s.cur]
             IN  [it |-> it1, item |-> Item(it1)]
        ELSE IF p.moved
        THEN IterNextFn([it EXCEPT !.cursor = p.cur, !.depth = it.depth - 1])
        ELSE IterNextFn([it EXCEPT !.cursor = p.cur, !.state = "Done"])

\* bug: a Right arm that gives up where there is no next sibling
RightArmGivesUp(it) ==
    LET s == WalkerGotoNextSibling(it.cursor)
    IN  IF s.moved
        THEN LET it1 == [it EXCEPT !.cursor = s.cur, !.state = "Down"]
             IN  [it |-> it1, item |-> Item(it1)]
        ELSE IterNextFn([it EXCEPT !.state = "Done"])

\* the Right arm of next
RightArm(it) ==
    LET s == WalkerGotoNextSibling(it.cursor)
        p == WalkerGotoParent(s.cur)
    IN  IF s.moved
        THEN LET it1 == [it EXCEPT !.cursor = s.cur, !.state = "Down"]
             IN  [it |-> it1, item |-> Item(it1)]
        ELSE IF p.moved
        THEN IterNextFn([it EXCEPT !.cursor = p.cur, !.depth = it.depth - 1])
        ELSE IterNextFn([it EXCEPT !.cursor = p.cur, !.state = "Done"])

\* bug: a Done arm that starts over
DoneArmRestarts(it) ==
    LET it1 == [it EXCEPT !.state = "Down"]
    IN  [it |-> it1, item |-> Item(it1)]

\* the Done arm of next
DoneArm(it) == [it |-> it, item |-> None]

\* <DepthFirstIterator as Iterator>::next: the iterator after the call and
\* the item returned
IterNextFn(it) ==
    CASE it.state = "Start" -> StartArm(it)
      [] it.state = "Down"  -> DownArm(it)
      [] it.state = "Right" -> RightArm(it)
      [] it.state = "Done"  -> DoneArm(it)

(***************************************************************************)
(* Operations on a cursor (make_cursor .. reset_cursor).                   *)
(***************************************************************************)
\* the byte positions a caller passes: inside, between and beyond the spans
BytePositions == 1..(EndByte(Root) + 2)

Positioned(w) == [from |-> w.pos, ups |-> 0]

ProjIdle == UNCHANGED <<outbuf, outprops>>

TwinIdle == UNCHANGED <<iter2, emitted2>>

ShareIdle == UNCHANGED <<objs, rc>>

BorrowIdle == UNCHANGED <<running, shared, excl, fault, bare>>

IterIdle == UNCHANGED <<iter, emitted, closed>> /\ ProjIdle /\ TwinIdle

MapcIdle == UNCHANGED <<mapc, calls, answers>> /\ ShareIdle /\ BorrowIdle

CursorIdle == UNCHANGED <<cursor, nodeOut, climb, owner>>

make_cursor(ton) ==
    /\ cursor = NoCursor
    /\ cursor' = Walk(ton)
    /\ climb' = Positioned(cursor')
    /\ call' = Called("make_cursor", ton.node, TRUE, NoIndex)
    /\ owner' = RCursorNew(TreeOf(ton), TreeOf(ton))
    /\ UNCHANGED <<tree, nodeOut>>
    /\ IterIdle /\ MapcIdle

current_node ==
    /\ cursor # NoCursor
    /\ nodeOut' = cursor.pos
    /\ call' = Called("current_node", 0, TRUE, NoIndex)
    /\ UNCHANGED <<tree, cursor, climb, owner>>
    /\ IterIdle /\ MapcIdle

goto_first_child ==
    /\ cursor # NoCursor
    /\ LET m == WalkerGotoFirstChild(cursor)
       IN  /\ cursor' = m.cur
           /\ call' = Called("goto_first_child", 0, m.moved, NoIndex)
    /\ climb' = Positioned(cursor')
    /\ UNCHANGED <<tree, nodeOut, owner>>
    /\ IterIdle /\ MapcIdle

goto_parent ==
    /\ cursor # NoCursor
    /\ LET m == WalkerGotoParent(cursor)
       IN  /\ cursor' = m.cur
           /\ call' = Called("goto_parent", 0, m.moved, NoIndex)
           /\ climb' = IF m.moved THEN [climb EXCEPT !.ups = climb.ups + 1] ELSE climb
    /\ UNCHANGED <<tree, nodeOut, owner>>
    /\ IterIdle /\ MapcIdle

goto_next_sibling ==
    /\ cursor # NoCursor
    /\ LET m == WalkerGotoNextSibling(cursor)
       IN  /\ cursor' = m.cur
           /\ call' = Called("goto_next_sibling", 0, m.moved, NoIndex)
    /\ climb' = Positioned(cursor')
    /\ UNCHANGED <<tree, nodeOut, owner>>
    /\ IterIdle /\ MapcIdle

goto_first_child_for_byte(bytepos) ==
    /\ cursor # NoCursor
    /\ LET m == WalkerGotoFirstChildForByte(cursor, BytePosInto(bytepos))
       IN  /\ cursor' = m.cur
           /\ call' = Called("goto_first_child_for_byte", bytepos, m.index.some, m.index)
    /\ climb' = Positioned(cursor')
    /\ UNCHANGED <<tree, nodeOut, owner>>
    /\ IterIdle /\ MapcIdle

reset_cursor(node) ==
    /\ cursor # NoCursor
    /\ cursor' = WalkerReset(cursor, node)
    /\ climb' = Positioned(cursor')
    /\ call' = Called("reset_cursor", node, TRUE, NoIndex)
    /\ \E t \in TreeIds : owner' = ResetOwner(owner, t)
    /\ UNCHANGED <<tree, nodeOut>>
    /\ IterIdle /\ MapcIdle

(***************************************************************************)
(* Operations on a depth-first iterator (_iter, _iter_next, _iter_close).  *)
(***************************************************************************)
_iter(ton) ==
    /\ iter = NoIter
    /\ iter' = DepthFirstIteratorNew(ton)
    /\ call' = Called("_iter", ton.node, TRUE, NoIndex)
    /\ UNCHANGED <<tree, emitted, closed>>
    /\ ProjIdle /\ TwinIdle
    /\ CursorIdle /\ MapcIdle

_iter_next ==
    /\ iter # NoIter
    /\ LET r == IterNextFn(iter)
       IN  /\ iter' = r.it
           /\ emitted' = IF r.item.some THEN Append(emitted, r.item) ELSE emitted
           /\ call' = Called("_iter_next", 0, r.item.some, NoIndex)
    /\ UNCHANGED <<tree, closed>>
    /\ ProjIdle /\ TwinIdle
    /\ CursorIdle /\ MapcIdle

_iter_close ==
    /\ iter # NoIter
    /\ iter' = Close(iter)
    /\ closed' = IF closed = -1 THEN Len(emitted) ELSE closed
    /\ call' = Called("_iter_close", 0, TRUE, NoIndex)
    /\ UNCHANGED <<tree, emitted>>
    /\ ProjIdle /\ TwinIdle
    /\ CursorIdle /\ MapcIdle

(***************************************************************************)
(* Node projection (_current_node).  Lisp values are [t, v]: nil, an       *)
(* integer, a node-type symbol or a node.                                  *)
(***************************************************************************)
Nil == [t |-> "nil", v |-> 0]

IntVal(i) == [t |-> "int", v |-> i]

SymVal(k) == [t |-> "sym", v |-> k]

NodeVal(n) == [t |-> "node", v |-> n]

\* node.lisp_type(): the grammar symbol of n; here nodes with the same
\* number of children share a symbol
lisp_type(n) == SymVal(Cardinality(ChildSet(n)))

\* one arm of the property dispatch; :depth and unknown names give nil
ProjectProp(prop, n) ==
    CASE prop = ":type"       -> lisp_type(n)
      [] prop = ":start-byte" -> IntVal(lisp_start_byte(n))
      [] prop = ":end-byte"   -> IntVal(lisp_end_byte(n))
      [] OTHER                -> Nil

\* bug: a position whose name is not recognized is left as it was
CurrentNodeIntoKeepsUnknown(w, props, output) ==
    [i \in DOMAIN output |->
        IF i <= Len(props) /\ ProjectProp(props[i], w.pos) # Nil
        THEN ProjectProp(props[i], w.pos)
        ELSE output[i]]

\* _current_node with PROPS and OUTPUT vectors: OUTPUT after the call
CurrentNodeInto(w, props, output) ==
    [i \in DOMAIN output |->
        IF i <= Len(props) THEN ProjectProp(props[i], w.pos) ELSE output[i]]

\* env.make_vector(n, ())
MakeVector(n) == [i \in 1..n |-> Nil]

\* the indexes of :depth in a property list, in order
DepthPositions(list) == SortedSeq({ i \in DOMAIN list : list[i] = ":depth" })

\* output.set(i, depth) for every i where props[i] is :depth
WriteDepths(output, list, depth) ==
    [i \in DOMAIN output |->
        IF i \in Range(DepthPositions(list)) THEN IntVal(depth) ELSE output[i]]

\* the body of _iter_current_node: OUTPUT after the call
IterCurrentNodeInto(it, props, output) ==
    WriteDepths(CurrentNodeInto(it.cursor, props, output), props, it.depth)

\* bug: the buffer is filled before the iterator advances
NextNodeStale(it, props, output) ==
    LET r == IterNextFn(it)
    IN  IF r.item.some
        THEN [it |-> r.it, item |-> r.item, output |-> IterCurrentNodeInto(it, props, output)]
        ELSE [it |-> r.it, item |-> r.item, output |-> output]

\* the body of _iter_next_node: the iterator, the item and OUTPUT after the call
NextNode(it, props, output) ==
    LET r == IterNextFn(it)
    IN  IF r.item.some
        THEN [it |-> r.it, item |-> r.item, output |-> IterCurrentNodeInto(r.it, props, output)]
        ELSE [it |-> r.it, item |-> r.item, output |-> output]

\* what the output buffer was last filled from: the property list, the node
\* it was projected on, and the node the same buffer described before that
\* (0 when the buffer was new)
NoProjection == [list |-> <<>>, node |-> 0, prev |-> 0]

Projection(props, it, before) == [list |-> props, node |-> it.cursor.pos, prev |-> before]

\* the property lists a caller of the iterator passes
IterPropLists ==
    { <<>>,
      <<":depth">>,
      <<":type", ":depth">>,
      <<":depth", ":bogus", ":depth">>,
      <<":type", ":start-byte", ":end-byte">> }

\* _iter_current_node(iterator, props, output); the caller passes the buffer
\* of the previous call, or a new vector of the length of props
_iter_current_node(props, fresh) ==
    /\ iter # NoIter
    /\ LET output == IF fresh THEN MakeVector(Len(props)) ELSE outbuf
       IN  /\ Len(output) = Len(props)
           /\ outbuf' = IterCurrentNodeInto(iter, props, output)
    /\ outprops' = Projection(props, iter, IF fresh THEN 0 ELSE outprops.node)
    /\ call' = Called("_iter_current_node", 0, TRUE, NoIndex)
    /\ UNCHANGED <<tree, iter, emitted, closed>>
    /\ TwinIdle
    /\ CursorIdle /\ MapcIdle

\* _iter_next_node(iterator, props, output), on the buffer of the previous call
_iter_next_node(props) ==
    /\ iter # NoIter
    /\ Len(outbuf) = Len(props)
    /\ LET r == NextNode(iter, props, outbuf)
       IN  /\ iter' = r.it
           /\ emitted' = IF r.item.some THEN Append(emitted, r.item) ELSE emitted
           /\ outbuf' = r.output
           /\ call' = Called("_iter_next_node", 0, r.item.some, NoIndex)
           /\ outprops' = IF r.item.some THEN Projection(props, r.it, outprops.node) ELSE outprops
    /\ UNCHANGED <<tree, closed>>
    /\ TwinIdle
    /\ CursorIdle /\ MapcIdle

(***************************************************************************)
(* The bulk traversal driver (_traverse_mapc).                             *)
(***************************************************************************)
\* the property lists a caller passes
PropLists ==
    { <<>>,
      <<":depth">>,
      <<":start-byte", ":depth">>,
      <<":depth", ":bogus", ":depth">>,
      <<":type", ":end-byte">> }

\* Option<Vector>: props
NoProps == [some |-> FALSE, list |-> <<>>]

SomeProps(l) == [some |-> TRUE, list |-> l]

PropsArgs == {NoProps} \cup { SomeProps(l) : l \in PropLists }

\* what a handler call can do: return a value (which may ask to stop), or fail
Returns == { "nil", "stop" }

Errors == { "E1", "E2" }

Outcomes == [failed : {FALSE}, val : Returns] \cup [failed : {TRUE}, val : Errors]

\* Result<()>
Pending == [done |-> FALSE, ok |-> FALSE, err |-> "-"]

Ok == [done |-> TRUE, ok |-> TRUE, err |-> "-"]

Err(e) == [done |-> TRUE, ok |-> FALSE, err |-> e]

MapcNotStarted ==
    [pc |-> "idle", iterator |-> NoIter, props |-> NoProps, output |-> <<>>,
     depth_indexes |-> <<>>, item |-> None, result |-> Pending]

\* the indexes of :depth in props, in order
DepthIndexes(props) ==
    SortedSeq({ i \in DOMAIN props.list : props.list[i] = ":depth" })

\* bug: only the first :depth position is written
SetDepthsFirstOnly(output, depth_indexes, depth) ==
    [i \in DOMAIN output |->
        IF depth_indexes # <<>> /\ i = Head(depth_indexes) THEN IntVal(depth) ELSE output[i]]

\* output.set(i, depth) for every i of depth_indexes
SetDepths(output, depth_indexes, depth) ==
    [i \in DOMAIN output |->
        IF i \in Range(depth_indexes) THEN IntVal(depth) ELSE output[i]]

\* the argument the handler is called with: the output vector as it is at
\* the call, or the node when no props were given
HandlerArg(m) ==
    IF m.props.some
    THEN [vec |-> TRUE,
          vals |-> SetDepths(CurrentNodeInto(m.iterator.cursor, m.props.list, m.output),
                             m.depth_indexes, m.iterator.depth)]
    ELSE [vec |-> FALSE, vals |-> <<NodeVal(m.iterator.cursor.pos)>>]

\* the driver after a handler call that returned normally: item = iterator.next()
AfterReturn(m, arg) ==
    LET r == IterNextFn(m.iterator)
    IN  [m EXCEPT !.output = IF m.props.some THEN arg.vals ELSE m.output,
                  !.iterator = r.it,
                  !.item = r.item]

\* bug: a handler failure is swallowed and the loop goes on
AfterFailureContinues(m, arg, e) == AfterReturn(m, arg)

\* the driver after a handler call that failed with e: `?` returns Err(e)
AfterFailure(m, arg, e) ==
    [m EXCEPT !.output = IF m.props.some THEN arg.vals ELSE m.output,
              !.pc = "done",
              !.result = Err(e)]

\* entry of _traverse_mapc up to the first iterator.next()
traverse_mapc_enter(ton, props) ==
    /\ mapc.pc = "idle"
    /\ LET r == IterNextFn(DepthFirstIteratorNew(ton))
       IN  mapc' = [pc |-> "loop", iterator |-> r.it, props |-> props,
                    output |-> MakeVector(Len(props.list)),
                    depth_indexes |-> DepthIndexes(props),
                    item |-> r.item, result |-> Pending]
    /\ call' = Called("_traverse_mapc", ton.node, TRUE, NoIndex)
    /\ UNCHANGED <<tree, calls, answers>>
    /\ CursorIdle /\ IterIdle /\ ShareIdle /\ BorrowIdle

\* one round of the while loop: project, set the depths, call the handler,
\* which returns or fails, and advance
traverse_mapc_body(outcome) ==
    /\ mapc.pc = "loop"
    /\ mapc.item.some
    /\ LET arg == HandlerArg(mapc)
       IN  /\ calls' = Append(calls, [node |-> mapc.iterator.cursor.pos,
                                      depth |-> mapc.iterator.depth,
                                      arg |-> arg])
           /\ answers' = Append(answers, outcome)
           /\ mapc' = IF outcome.failed
                      THEN AfterFailure(mapc, arg, outcome.val)
                      ELSE AfterReturn(mapc, arg)
    /\ call' = Called("handler", Len(calls'), ~outcome.failed, NoIndex)
    /\ UNCHANGED tree
    /\ CursorIdle /\ IterIdle /\ ShareIdle /\ BorrowIdle

\* bug: the loop may end while an item is pending
traverse_mapc_return_early ==
    /\ mapc.pc = "loop"
    /\ mapc' = [mapc EXCEPT !.pc = "done", !.result = Ok]
    /\ call' = Called("return", 0, TRUE, NoIndex)
    /\ UNCHANGED <<tree, calls, answers>>
    /\ CursorIdle /\ IterIdle /\ ShareIdle /\ BorrowIdle

\* the while loop ends: Ok(())
traverse_mapc_return ==
    /\ mapc.pc = "loop"
    /\ ~mapc.item.some
    /\ mapc' = [mapc EXCEPT !.pc = "done", !.result = Ok]
    /\ call' = Called("return", 0, TRUE, NoIndex)
    /\ UNCHANGED <<tree, calls, answers>>
    /\ CursorIdle /\ IterIdle /\ ShareIdle /\ BorrowIdle

(***************************************************************************)
(* Specifications.                                                         *)
(***************************************************************************)
Init ==
    /\ tree \in Trees
    /\ cursor = NoCursor
    /\ nodeOut = NoNode
    /\ iter = NoIter
    /\ emitted = <<>>
    /\ closed = -1
    /\ mapc = MapcNotStarted
    /\ calls = <<>>
    /\ answers = <<>>
    /\ climb = Positioned(NoCursor)
    /\ call = NoCall
    /\ owner = NoOwner
    /\ outbuf = <<>>
    /\ outprops = NoProjection
    /\ iter2 = NoIter
    /\ emitted2 = <<>>
    /\ objs = SetToBag({ TreeHandle(t) : t \in TreeIds })
    /\ rc = [t \in TreeIds |-> 1]
    /\ running = NoOp
    /\ shared = 0
    /\ excl = 0
    /\ fault = FALSE
    /\ bare = {}

\* a caller driving one depth-first iterator
Next ==
    \/ \E ton \in TreeOrNode : _iter(ton)
    \/ _iter_next
    \/ _iter_close
    \/ \E props \in IterPropLists, fresh \in BOOLEAN : _iter_current_node(props, fresh)
    \/ \E props \in IterPropLists : _iter_next_node(props)

Spec == Init /\ [][Next]_vars

\* bug: the second traversal walks with the first one's cursor
AdvanceOwnShared(own, other) == IterNextFn([own EXCEPT !.cursor = other.cursor])

\* iterator.next() of one of two traversals: it moves the cursor the
\* iterator owns
AdvanceOwn(own, other) == IterNextFn(own)

TwinFrame ==
    /\ UNCHANGED <<tree, iter, emitted, closed>>
    /\ ProjIdle
    /\ CursorIdle /\ MapcIdle

\* _iter for a second traversal
twin_iter(ton) ==
    /\ iter2 = NoIter
    /\ iter2' = DepthFirstIteratorNew(ton)
    /\ call' = Called("_iter/2", ton.node, TRUE, NoIndex)
    /\ UNCHANGED emitted2
    /\ TwinFrame

\* _iter_next on the second traversal
twin_next ==
    /\ iter2 # NoIter
    /\ LET r == AdvanceOwn(iter2, iter)
       IN  /\ iter2' = r.it
           /\ emitted2' = IF r.item.some THEN Append(emitted2, r.item) ELSE emitted2
           /\ call' = Called("_iter_next/2", 0, r.item.some, NoIndex)
    /\ TwinFrame

\* a caller driving two depth-first iterators
NextTwo ==
    \/ \E ton \in TreeOrNode : _iter(ton)
    \/ _iter_next
    \/ _iter_close
    \/ \E ton \in TreeOrNode : twin_iter(ton)
    \/ twin_next

SpecTwo == Init /\ [][NextTwo]_vars

(***************************************************************************)
(* Borrows of the tree's RefCell inside each operation.  An operation is   *)
(* run as the sequence of its events: a borrow taken, a read of tree data  *)
(* through the walker or a node, a borrow released, the handler called.    *)
(***************************************************************************)
Ev(kind, line) == [kind |-> kind, line |-> line]

Read(line) == <<Ev("read", line)>>

\* RCursor::borrow: a Ref<Tree> that lives as long as the RCursorBorrow
CursorBorrow(line, during) ==
    <<Ev("borrow", line)>> \o during \o <<Ev("release", line)>>

\* bug: borrow_mut takes the tree exclusively
CursorBorrowMutExclusive(line, during) ==
    <<Ev("borrow_mut", line)>> \o during \o <<Ev("release_mut", line)>>

\* RCursor::borrow_mut: self.tree.borrow(), a shared Ref<Tree>
CursorBorrowMut(line, during) ==
    <<Ev("borrow", line)>> \o during \o <<Ev("release", line)>>

\* RNode::borrow: the node's share of the tree is borrowed likewise
NodeBorrow(line, during) ==
    <<Ev("borrow", line)>> \o during \o <<Ev("release", line)>>

\* RCursor::new: the Ref<Tree> of line 88 is a temporary of that statement;
\* f is applied on line 89
RCursorNewEvents(f) == <<Ev("borrow", 88), Ev("release", 88)>> \o f

\* TreeOrNode::walk
WalkEvents(kind) ==
    IF kind = "tree"
    THEN RCursorNewEvents(Read(133))
    ELSE RCursorNewEvents(NodeBorrow(136, Read(136)))

\* current_node, and DepthFirstIterator::item
NodeOfEvents(line) == CursorBorrow(line, Read(line))

\* current_field
CurrentFieldEvents == CursorBorrow(173, Read(174) \o Read(175))

\* the moves made by defun_cursor_walks, and those of next()
MoveEvents(line) == CursorBorrowMut(line, Read(line))

\* reset_cursor: the receiver's borrow_mut, then the argument's borrow
ResetEvents == CursorBorrowMut(211, NodeBorrow(211, Read(211)))

\* one arm of the dispatch of _current_node
ArmEvents(prop) ==
    CASE prop = ":type"       -> Read(366)
      [] prop = ":start-byte" -> Read(370)
      [] prop = ":end-byte"   -> Read(372)
      [] prop = ":field"      -> CurrentFieldEvents
      [] OTHER                -> <<>>

RECURSIVE ArmsEvents(_)
ArmsEvents(list) ==
    IF list = <<>> THEN <<>> ELSE ArmEvents(Head(list)) \o ArmsEvents(Tail(list))

\* _current_node: `node` is taken under a borrow that ends with line 355
CurrentNodeEvents(props) ==
    NodeOfEvents(355) \o (IF props.some THEN ArmsEvents(props.list) ELSE <<>>)

\* the ways through one call of next(): the moves tried, then the item
AdvancePaths ==
    { <<>>,
      <<"item">>,
      <<"goto_first_child", "item">>,
      <<"goto_first_child", "goto_next_sibling", "item">>,
      <<"goto_first_child", "goto_next_sibling", "goto_parent", "goto_next_sibling", "item">>,
      <<"goto_first_child", "goto_next_sibling", "goto_parent">> }

AdvanceStepEvents(what) ==
    CASE what = "item"              -> NodeOfEvents(245)
      [] what = "goto_first_child"  -> MoveEvents(265)
      [] what = "goto_next_sibling" -> MoveEvents(274)
      [] what = "goto_parent"       -> MoveEvents(277)

RECURSIVE AdvanceEvents(_)
AdvanceEvents(path) ==
    IF path = <<>> THEN <<>>
    ELSE AdvanceStepEvents(Head(path)) \o AdvanceEvents(Tail(path))

\* the property lists whose arms read the tree in different ways
BorrowPropLists ==
    { <<>>, <<":type">>, <<":field">>, <<":depth", ":bogus">>, <<":start-byte", ":field", ":end-byte">> }

BorrowProps == {NoProps} \cup { SomeProps(l) : l \in BorrowPropLists }

\* _traverse_mapc over a one-node subtree: first next(), one round of the
\* loop with its handler call, and the next() that ends it
MapcEvents(props) ==
    WalkEvents("tree") \o AdvanceEvents(<<"item">>) \o CurrentNodeEvents(props)
        \o <<Ev("handler", 431)>>
        \o AdvanceEvents(<<"goto_first_child", "goto_next_sibling", "goto_parent">>)

Op(name, steps) == [name |-> name, steps |-> steps]

\* the operations a caller starts, each with its events
Operations ==
    { Op("make_cursor", WalkEvents(k)) : k \in {"tree", "node"} }
    \cup { Op("_iter", WalkEvents(k)) : k \in {"tree", "node"} }
    \cup { Op("current_node", NodeOfEvents(159)),
           Op("current_field_id", NodeOfEvents(166)),
           Op("current_field", CurrentFieldEvents),
           Op("goto_first_child", MoveEvents(184)),
           Op("goto_parent", MoveEvents(184)),
           Op("goto_next_sibling", MoveEvents(184)),
           Op("goto_first_child_for_byte", MoveEvents(184)),
           Op("reset_cursor", ResetEvents),
           Op("_iter_close", <<>>) }
    \cup { Op("_current_node", CurrentNodeEvents(p)) : p \in BorrowProps }
    \cup { Op("_iter_current_node", CurrentNodeEvents(SomeProps(l))) : l \in BorrowPropLists }
    \cup { Op("_iter_next", AdvanceEvents(path)) : path \in AdvancePaths }
    \cup { Op("_iter_next_node",
              AdvanceEvents(path)
                \o (IF path # <<>> /\ path[Len(path)] = "item"
                    THEN CurrentNodeEvents(SomeProps(l)) ELSE <<>>)) :
             path \in AdvancePaths, l \in BorrowPropLists }
    \cup { Op("_traverse_mapc", MapcEvents(p)) : p \in BorrowProps }

\* the operations that move a cursor
CursorMutating ==
    { "goto_first_child", "goto_parent", "goto_next_sibling", "goto_first_child_for_byte",
      "reset_cursor", "_iter_next", "_iter_next_node", "_traverse_mapc" }

BorrowFrame ==
    /\ UNCHANGED <<tree, mapc, calls, answers>>
    /\ ShareIdle
    /\ CursorIdle /\ IterIdle

\* a caller starts an operation
begin(o) ==
    /\ running = NoOp
    /\ ~fault
    /\ running' = o
    /\ call' = Called(o.name, 0, TRUE, NoIndex)
    /\ UNCHANGED <<shared, excl, fault, bare>>
    /\ BorrowFrame

\* the operation in progress makes its next event
step ==
    /\ running # NoOp
    /\ running.steps # <<>>
    /\ ~fault
    /\ LET e == Head(running.steps)
           conflict == \/ e.kind = "borrow" /\ excl > 0
                       \/ e.kind = "borrow_mut" /\ (excl > 0 \/ shared > 0)
       IN  /\ fault' = conflict
           /\ shared' = CASE e.kind = "borrow" /\ ~conflict -> shared + 1
                          [] e.kind = "release"             -> shared - 1
                          [] OTHER                          -> shared
           /\ excl' = CASE e.kind = "borrow_mut" /\ ~conflict -> excl + 1
                        [] e.kind = "release_mut"            -> excl - 1
                        [] OTHER                             -> excl
           /\ bare' = IF e.kind = "read" /\ shared + excl = 0
                      THEN bare \cup {e.line} ELSE bare
    /\ running' = [running EXCEPT !.steps = Tail(@)]
    /\ UNCHANGED call
    /\ BorrowFrame

\* the operation returns
finish ==
    /\ running # NoOp
    /\ running.steps = <<>>
    /\ running' = NoOp
    /\ UNCHANGED <<call, shared, excl, fault, bare>>
    /\ BorrowFrame

NextBorrow ==
    \/ \E o \in Operations : begin(o)
    \/ step
    \/ finish

SpecBorrow == Init /\ [][NextBorrow]_vars

\* a caller driving one cursor
NextCursor ==
    \/ \E ton \in TreeOrNode : make_cursor(ton)
    \/ current_node
    \/ goto_first_child
    \/ goto_parent
    \/ goto_next_sibling
    \/ \E b \in BytePositions : goto_first_child_for_byte(b)
    \/ \E n \in Nodes : reset_cursor(n)

SpecCursor == Init /\ [][NextCursor]_vars

\* one run of the bulk driver with an arbitrary handler
NextMapc ==
    \/ \E ton \in TreeOrNode, props \in PropsArgs : traverse_mapc_enter(ton, props)
    \/ \E outcome \in Outcomes : traverse_mapc_body(outcome)
    \/ traverse_mapc_return

SpecMapc == Init /\ [][NextMapc]_vars

(***************************************************************************)
(* Sharing of the trees: who owns a share, who is dropped when.  Positions *)
(* play no part here; objects are told apart by kind and trees only.       *)
(***************************************************************************)
Live == BagToSet(objs)

One(o) == SetToBag({o})

\* the derived objects alive: everything but the callers' tree handles
Derived == { o \in Live : o.kind # "tree" }

HasRoom == BagCardinality(objs) < MaxObjs + Cardinality(TreeIds)

ShareFrame ==
    /\ UNCHANGED <<tree, owner>>
    /\ CursorIdle /\ IterIdle /\ BorrowIdle
    /\ UNCHANGED <<mapc, calls, answers>>

\* make_cursor / _iter on a tree handle or a node: TreeOrNode::walk clones
\* the tree (or the node's tree) and walks it (or the node)
new_walker(kind, from) ==
    /\ from \in Live /\ from.kind \in {"tree", "node"}
    /\ HasRoom
    /\ objs' = objs (+) One(Obj(kind, from.tree, from.inner))
    /\ rc' = Acquire(rc, from.tree)
    /\ call' = Called(kind, 0, TRUE, NoIndex)
    /\ ShareFrame

\* current_node: RNode::new(cursor.clone_tree(), |_| cursor.borrow().node())
new_node(c) ==
    /\ c \in Live /\ c.kind = "cursor"
    /\ HasRoom
    /\ objs' = objs (+) One(Obj("node", c.tree, c.inner))
    /\ rc' = Acquire(rc, c.tree)
    /\ call' = Called("current_node", 0, TRUE, NoIndex)
    /\ ShareFrame

\* _iter_next: the item built by item() owns a share until is_some() has
\* looked at it and it is dropped
advance_item(i) ==
    /\ i \in Live /\ i.kind = "iter"
    /\ rc' = Release(Acquire(rc, i.tree), i.tree)
    /\ call' = Called("_iter_next", 0, TRUE, NoIndex)
    /\ UNCHANGED objs
    /\ ShareFrame

\* reset_cursor(c, n)
reset_to(c, n) ==
    /\ c \in Live /\ c.kind = "cursor"
    /\ n \in Live /\ n.kind = "node"
    /\ LET o == ResetOwner([tree |-> c.tree, inner |-> c.inner], n.inner)
       IN  objs' = (objs (-) One(c)) (+) One(Obj("cursor", o.tree, o.inner))
    /\ call' = Called("reset_cursor", 0, TRUE, NoIndex)
    /\ UNCHANGED rc
    /\ ShareFrame

\* an object is dropped (garbage collected): its share is released
drop(o) ==
    /\ o \in Live
    /\ objs' = objs (-) One(o)
    /\ rc' = Release(rc, o.tree)
    /\ call' = Called("drop", 0, TRUE, NoIndex)
    /\ ShareFrame

\* positions play no part in sharing: the trees are single nodes
InitShare == Init /\ Len(tree) = 1

\* all object records, for the quantifiers of NextShare
ObjRecords == [kind : {"tree", "cursor", "node", "iter"}, tree : TreeIds, inner : TreeIds]

NextShare ==
    \/ \E from \in ObjRecords, kind \in {"cursor", "iter"} : new_walker(kind, from)
    \/ \E c \in ObjRecords : new_node(c)
    \/ \E i \in ObjRecords : advance_item(i)
    \/ \E c, n \in ObjRecords : reset_to(c, n)
    \/ \E o \in ObjRecords : drop(o)

SpecShare == InitShare /\ [][NextShare]_vars

(***************************************************************************)
(* Properties of the depth-first iterator (under Spec).                    *)
(***************************************************************************)
\* the node the iterator was started on
IterStart == iter.cursor.root

\* the pre-order enumeration of the subtree of n, with depths below n
ExpectedItems(n) ==
    LET po == PreOrder(n)
    IN  [i \in 1..Len(po) |->
            [some |-> TRUE, node |-> po[i], depth |-> Distance(n, po[i])]]

IsPrefix(s, t) == Len(s) <= Len(t) /\ \A i \in 1..Len(s) : s[i] = t[i]

\* the last operation was an advance that yielded no item
AdvanceYieldedNone == call.op = "_iter_next" /\ ~call.moved

\* C1: advancing a fresh traversal until it first yields no item produces
\* every node of the start point's subtree exactly once, in pre-order, each
\* with its distance from the start point as depth.
C1_PreOrderOnce ==
    iter # NoIter =>
        /\ IsPrefix(emitted, ExpectedItems(IterStart))
        /\ \A i, j \in 1..Len(emitted) : emitted[i].node = emitted[j].node => i = j
        /\ (closed = -1 /\ AdvanceYieldedNone) => emitted = ExpectedItems(IterStart)

\* C1 witness: root 1 with children [2, 3] where 2 has child 4 has yielded
\* [1@0, 2@1, 4@2, 3@1] and then completed.
C1_Witness ==
    /\ tree = <<0, 1, 1, 2>>
    /\ iter # NoIter /\ IterStart = Root
    /\ closed = -1 /\ AdvanceYieldedNone
    /\ Len(emitted) = 4
    /\ <<emitted[1].node, emitted[2].node, emitted[3].node, emitted[4].node>> = <<1, 2, 4, 3>>
    /\ <<emitted[1].depth, emitted[2].depth, emitted[3].depth, emitted[4].depth>> = <<0, 1, 2, 1>>

\* C2: once close() has been called, whatever the state was, the state is
\* Done, every later advance yields no item, and the cursor never moves again.
C2_CloseStopsAdvance ==
    /\ [](closed >= 0 => iter.state = "Done")
    /\ [][closed >= 0 =>
            /\ iter'.cursor = iter.cursor
            /\ emitted' = emitted
            /\ (call'.op = "_iter_next" => ~call'.moved)]_vars

\* C2 witness: closed after the second emitted item with nodes still
\* unvisited, and a later advance yielded no item.
C2_Witness ==
    /\ closed = 2
    /\ Len(emitted) = 2
    /\ Len(ExpectedItems(IterStart)) > 2
    /\ AdvanceYieldedNone

\* C3: Done is terminal: an advance that yields no item leaves the state
\* Done, and from Done every advance yields no item and state, depth and
\* cursor position never change.
C3_DoneTerminal ==
    /\ [](AdvanceYieldedNone => iter.state = "Done")
    /\ [][iter.state = "Done" =>
            /\ iter' = iter
            /\ emitted' = emitted
            /\ (call'.op = "_iter_next" => ~call'.moved)]_vars

\* C3 witness: a traversal of several nodes, never closed, is exhausted.
C3_Witness ==
    /\ closed = -1
    /\ iter.state = "Done"
    /\ AdvanceYieldedNone
    /\ Len(emitted) >= 3

\* C4: a traversal started on a childless node (or on a tree whose root is
\* childless) yields exactly one item, the start node at depth 0, and then
\* no item, leaving the state Done, whatever surrounds the start node.
C4_ChildlessStart ==
    (iter # NoIter /\ ChildSet(IterStart) = {}) =>
        /\ Len(emitted) <= 1
        /\ \A i \in 1..Len(emitted) :
              emitted[i] = [some |-> TRUE, node |-> IterStart, depth |-> 0]
        /\ (closed = -1 /\ AdvanceYieldedNone) => (Len(emitted) = 1 /\ iter.state = "Done")
        /\ (Len(emitted) = 1 /\ call.op = "_iter_next" /\ call.moved) => iter.state = "Down"

\* C4 witness: the start node is a childless node with a parent and a next
\* sibling; it was yielded at depth 0 and the next advance yielded nothing.
C4_Witness ==
    /\ iter # NoIter
    /\ ChildSet(IterStart) = {}
    /\ Parent(IterStart) # 0
    /\ NextSibling(IterStart) # 0
    /\ closed = -1 /\ AdvanceYieldedNone
    /\ emitted = <<[some |-> TRUE, node |-> IterStart, depth |-> 0]>>
    /\ iter.state = "Done"

(***************************************************************************)
(* Properties of the bulk traversal driver (under SpecMapc).               *)
(***************************************************************************)
\* the node the driver's iterator was started on
MapcStart == mapc.iterator.cursor.root

\* no handler call has failed so far
NoFailure == \A i \in DOMAIN answers : ~answers[i].failed

\* C5: with a handler that never fails, the driver over a subtree of K
\* nodes calls the handler once per node in pre-order, K times in all when
\* it returns, and every :depth position of the buffer handed to the handler
\* holds the iterator's depth for that node, which is the node's distance
\* from the start.
C5_HandlerPerNode ==
    (mapc.pc # "idle" /\ NoFailure) =>
        LET exp == ExpectedItems(MapcStart)
        IN  /\ Len(calls) <= Len(exp)
            /\ \A i \in 1..Len(calls) :
                  /\ calls[i].node = exp[i].node
                  /\ calls[i].depth = exp[i].depth
                  /\ calls[i].arg.vec =>
                        \A j \in DOMAIN mapc.props.list :
                            mapc.props.list[j] = ":depth" =>
                                calls[i].arg.vals[j] = IntVal(calls[i].depth)
            /\ mapc.pc = "done" => (mapc.result = Ok /\ Len(calls) = Len(exp))

\* C5 witness: a run over the four nodes of <<0, 1, 1, 2>> with two :depth
\* positions requested has returned after four calls.
C5_Witness ==
    /\ tree = <<0, 1, 1, 2>>
    /\ mapc.pc = "done" /\ mapc.result = Ok
    /\ mapc.props = SomeProps(<<":depth", ":bogus", ":depth">>)
    /\ Len(calls) = 4
    /\ calls[3].node = 4 /\ calls[3].arg.vals[3] = IntVal(2)
    /\ calls[4].node = 3 /\ calls[4].arg.vals[1] = IntVal(1)

\* C6: if the handler fails on the i-th visited node, the handler has been
\* called exactly i times in all and the driver has returned that failure.
C6_FailureAborts ==
    /\ Len(answers) = Len(calls)
    /\ \A i \in DOMAIN answers :
          answers[i].failed =>
              /\ Len(calls) = i
              /\ mapc.pc = "done"
              /\ mapc.result = Err(answers[i].val)

\* C6 witness: the handler failed with E2 on the second of four nodes.
C6_Witness ==
    /\ Len(PreOrder(MapcStart)) = 4
    /\ Len(calls) = 2
    /\ answers[1] = [failed |-> FALSE, val |-> "nil"]
    /\ answers[2] = [failed |-> TRUE, val |-> "E2"]
    /\ mapc.result = Err("E2")

\* C7 as stated: after a handler call that asks to stop without failing,
\* the handler is not called for any later node.
C7_StopHonoured ==
    \A i \in DOMAIN answers :
        (~answers[i].failed /\ answers[i].val = "stop") => Len(calls) = i

\* C7 amended: the loop ends only when the iterator is exhausted or the
\* handler fails.  While no call has failed, the next node is pending as
\* long as fewer than K calls were made, whatever the handler returned; the
\* driver returns Ok only after K calls with the iterator Done, and returns
\* an error only when the last call failed.
C7_StopsOnlyOnDoneOrFailure ==
    mapc.pc # "idle" =>
        LET K == Len(PreOrder(MapcStart))
        IN  /\ mapc.pc = "loop" =>
                  (NoFailure /\ (mapc.item.some <=> Len(calls) < K))
            /\ mapc.pc = "done" =>
                  IF mapc.result.ok
                  THEN NoFailure /\ Len(calls) = K /\ mapc.iterator.state = "Done"
                  ELSE answers # <<>> /\ answers[Len(answers)].failed

\* C7 witness: the handler asked to stop on the first node and was still
\* called for the two later nodes before the driver returned.
C7_Witness ==
    /\ mapc.pc = "done" /\ mapc.result = Ok
    /\ Len(calls) = 3
    /\ answers[1] = [failed |-> FALSE, val |-> "stop"]

(***************************************************************************)
(* Properties of the cursor operations (under SpecCursor).                 *)
(***************************************************************************)
\* the step is a call of op, which returned `moved`; it leaves the cursor
\* where it was when it fails and puts it on `target` when it succeeds
MoveContract(op, exists, target) ==
    call'.op = op =>
        /\ call'.moved <=> exists
        /\ call'.moved => (cursor'.pos = target /\ cursor'.root = cursor.root)
        /\ ~call'.moved => cursor' = cursor

\* some sibling follows n under the same parent
HasLaterSibling(n) == \E i \in Nodes : i > n /\ tree[i] = tree[n] /\ tree[n] # 0

\* the sibling that follows n
LaterSibling(n) == Min({ i \in Nodes : i > n /\ tree[i] = tree[n] })

C11_PositionInHeldTree ==
    /\ [](cursor # NoCursor =>
            /\ owner.tree \in TreeIds
            /\ owner.inner = owner.tree
            /\ cursor.pos \in Nodes)
    /\ [][call'.op = "reset_cursor" => owner'.tree = owner.tree]_vars

(***************************************************************************)
(* Properties of tree sharing (under SpecShare).                           *)
(***************************************************************************)
\* the shares of tree t owned by live cursors, nodes and traversals
SharesOf(t) ==
    BagCardinality([o \in { x \in Derived : x.tree = t } |-> CopiesIn(o, objs)])

\* the part of C12 about counting: every live derived object owns a share
CountsDerived == \A t \in TreeIds : rc[t] >= SharesOf(t)

\* C12: a tree's reference count is at least the number of live cursors,
\* traversals and nodes derived from it, so no tree is destroyed while a
\* live cursor, traversal or node points into it, in whatever order the
\* objects are dropped.
C12_TreeOutlivesUsers ==
    /\ CountsDerived
    /\ \A o \in Derived : rc[o.inner] > 0

(***************************************************************************)
(* Properties of projection through the iterator and of its depth and      *)
(* states (under Spec).                                                    *)
(***************************************************************************)
\* what a buffer filled from props on node n at depth d holds
Described(props, n, d) ==
    [i \in 1..Len(props) |->
        IF props[i] = ":depth" THEN IntVal(d) ELSE ProjectProp(props[i], n)]

LastEmitted == emitted[Len(emitted)]

\* C13: projecting a property list into a supplied buffer of the same
\* length overwrites every position i with the value of props[i] for the
\* current node (nil for an unrecognized name), so a buffer refilled on
\* another node holds nothing of the previous node.
C13_ProjectionOverwrites ==
    call.op = "_iter_current_node" =>
        /\ Len(outbuf) = Len(outprops.list)
        /\ \A i \in 1..Len(outbuf) :
              /\ outprops.list[i] = ":type" => outbuf[i] = lisp_type(iter.cursor.pos)
              /\ outprops.list[i] = ":start-byte" => outbuf[i] = IntVal(lisp_start_byte(iter.cursor.pos))
              /\ outprops.list[i] = ":end-byte" => outbuf[i] = IntVal(lisp_end_byte(iter.cursor.pos))
              /\ outprops.list[i] = ":depth" => outbuf[i] = IntVal(iter.depth)
              /\ outprops.list[i] = ":bogus" => outbuf[i] = Nil

\* C13 witness: a buffer that described another node, of another type and
\* span, was refilled from {type, start-byte, end-byte} on the current node.
C13_Witness ==
    /\ call.op = "_iter_current_node"
    /\ outprops.list = <<":type", ":start-byte", ":end-byte">>
    /\ outprops.prev # 0
    /\ outprops.node = iter.cursor.pos
    /\ lisp_type(outprops.prev) # lisp_type(outprops.node)
    /\ lisp_start_byte(outprops.prev) # lisp_start_byte(outprops.node)
    /\ lisp_end_byte(outprops.prev) # lisp_end_byte(outprops.node)
    /\ outbuf = Described(outprops.list, outprops.node, iter.depth)

\* C17: in every state of a traversal depth is >= 0 and is the distance
\* from the start node to the cursor's node: descents add one, ascents take
\* one away, sibling moves leave it, and it never goes below 0.
C17_DepthIsDistance ==
    iter # NoIter =>
        /\ iter.depth >= 0
        /\ IsAncestor(IterStart, iter.cursor.pos)
        /\ iter.depth = Distance(IterStart, iter.cursor.pos)

\* C17 witness: after a descent to depth 2 the traversal climbed and moved
\* to a sibling at depth 1.
C17_Witness ==
    /\ iter # NoIter
    /\ Len(emitted) >= 2
    /\ emitted[Len(emitted) - 1].depth = 2
    /\ LastEmitted.depth = 1
    /\ iter.depth = 1
    /\ iter.cursor.pos = LastEmitted.node

\* C18: an advance returns an item and leaves the state Down, or returns no
\* item and leaves the state Done; it never returns in Start or Right.
C18_AdvanceEndsDownOrDone ==
    call.op \in {"_iter_next", "_iter_next_node"} =>
        \/ call.moved /\ iter.state = "Down"
        \/ ~call.moved /\ iter.state = "Done"

\* C18 witness: one advance went through Down, Right, a climb and Right
\* again, and returned the sibling of an ancestor in state Down.
C18_Witness ==
    /\ call.op = "_iter_next" /\ call.moved
    /\ iter.state = "Down"
    /\ Len(emitted) >= 2
    /\ LastEmitted.depth < emitted[Len(emitted) - 1].depth
    /\ ChildSet(emitted[Len(emitted) - 1].node) = {}

\* C19: a traversal that was never closed and is exhausted has its cursor
\* on the start node and depth 0, and the current-node accessor then
\* describes the start node at depth 0.
C19_ExhaustedIsHome ==
    (iter # NoIter /\ closed = -1 /\ iter.state = "Done") =>
        /\ iter.cursor.pos = IterStart
        /\ iter.depth = 0
        /\ call.op = "_iter_current_node" =>
              outbuf = Described(outprops.list, IterStart, 0)

\* C19 witness: the last node yielded was below the start node, the
\* traversal is exhausted, and the accessor has written type and depth 0.
C19_Witness ==
    /\ iter # NoIter /\ closed = -1 /\ iter.state = "Done"
    /\ Len(emitted) >= 3
    /\ LastEmitted.depth = 2
    /\ call.op = "_iter_current_node"
    /\ outprops.list = <<":type", ":depth">>
    /\ outbuf = <<lisp_type(IterStart), IntVal(0)>>

\* C20: _iter_next_node on a traversal with no next node (exhausted or
\* closed) returns false and leaves the buffer as it was; when it returns
\* true the whole buffer describes the node just advanced to, depth
\* positions holding that node's depth.
C20_NextNode ==
    [][call'.op = "_iter_next_node" =>
          /\ iter.state = "Done" => ~call'.moved
          /\ ~call'.moved => outbuf' = outbuf
          /\ call'.moved =>
                /\ LastEmitted' = [some |-> TRUE, node |-> iter'.cursor.pos, depth |-> iter'.depth]
                /\ iter'.cursor.pos # iter.cursor.pos \/ iter.state = "Start"
                /\ outbuf' = Described(outprops'.list, iter'.cursor.pos, iter'.depth)]_vars

\* C20 witness: the traversal was closed before its end, and a step on a
\* buffer that describes an earlier node returned false and left it so.
C20_Witness ==
    /\ call.op = "_iter_next_node" /\ ~call.moved
    /\ closed >= 0
    /\ Len(ExpectedItems(IterStart)) > Len(emitted)
    /\ outprops.list = <<":depth", ":bogus", ":depth">>
    /\ outbuf = <<IntVal(1), Nil, IntVal(1)>>

(***************************************************************************)
(* Properties of two traversals over one tree (under SpecTwo).             *)
(***************************************************************************)
\* the (node-type, depth) sequence of a sequence of items
TypeDepths(items) ==
    [i \in 1..Len(items) |-> <<lisp_type(items[i].node), items[i].depth>>]

SameStart == iter # NoIter /\ iter2 # NoIter /\ iter2.cursor.root = IterStart

NextEvent ==
    IF running.steps = <<>> THEN Ev("none", 0) ELSE Head(running.steps)

\* C15: in every operation, every read of tree data through the walker or
\* through a node obtained from it happens while the operation holds a live
\* borrow of the tree.
C15_ReadsUnderBorrow ==
    /\ NextEvent.kind = "read" => shared + excl > 0
    /\ bare = {}

\* C16: no sequence of operations fails with a borrow conflict: at most one
\* exclusive borrow of the tree is outstanding, only during a
\* cursor-mutating operation and never together with a shared borrow; and
\* no borrow is outstanding while the bulk traversal's handler runs.
C16_NoBorrowConflict ==
    /\ ~fault
    /\ shared >= 0
    /\ excl \in {0, 1}
    /\ excl = 1 => (running.name \in CursorMutating /\ shared = 0)
    /\ NextEvent.kind = "handler" => (shared = 0 /\ excl = 0)
    /\ running = NoOp => (shared = 0 /\ excl = 0)

\* C16 witness: reset_cursor is about to re-initialize the walker while the
\* cursor's borrow and the node's borrow of the tree are both outstanding.
C16_Witness ==
    /\ running.name = "reset_cursor"
    /\ NextEvent = Ev("read", 211)
    /\ shared = 2
    /\ excl = 0
    /\ ~fault

====
